---- MODULE Spec2Model ----
(***************************************************************************)
(* graphql-mcp: an MCP server exposing a GraphQL endpoint as five tools    *)
(* (list_queries, list_mutations, describe, invoke_graphql, set_headers).  *)
(* Strings are TLA+ strings; a character is a string of length one.        *)
(***************************************************************************)
EXTENDS Integers, Sequences, FiniteSets, TLC

VARIABLES
    env,             \* value of the GRAPHQL_HEADERS environment variable (a JSON document)
    currentHeaders,  \* the process-wide header store, canonical key -> value
    upstream,        \* the schema the GraphQL endpoint serves right now
    fetches,         \* introspection requests the endpoint has received
    request,         \* the describe argument under study (drawn in InitDescribe)
    last,            \* the last completed tool call and what it returned
    pinned,          \* history: headers a successful set_headers set, not named by a later set_headers
    redeployed,      \* history: "none" before any fetch, "fresh" after one, "changed" once the schema changed since
    procs,           \* concurrent invocations: position and locals of each
    crashed          \* the Go runtime aborted the process (fatal error)

vars == <<env, currentHeaders, upstream, fetches, request, last, pinned, redeployed, procs, crashed>>

(***************************************************************************)
(* Bounds                                                                  *)
(***************************************************************************)
MaxTokens == 3       \* comma-separated pieces of a describe argument
MaxFetches == 2      \* introspection requests per run
MaxMembers == 2      \* members of a JSON object argument
NProcs == 2          \* concurrent invocations

(***************************************************************************)
(* Strings                                                                 *)
(***************************************************************************)
Ch(s, i) == SubSeq(s, i, i)

\* unicode.IsSpace restricted to the white space TLA+ can write.
IsSpace(c) == c \in {" ", "\t", "\n", "\r", "\f"}

\* strings.Index(s, sep) for a one-character sep, 1-based; 0 when absent.
IndexOf(s, sep) ==
    IF \E i \in 1..Len(s) : Ch(s, i) = sep
    THEN CHOOSE i \in 1..Len(s) : Ch(s, i) = sep /\ \A j \in 1..(i-1) : Ch(s, j) # sep
    ELSE 0

\* strings.Split(s, sep): cut at each sep in turn; the rest is the last piece.
RECURSIVE Split(_, _)
Split(s, sep) ==
    LET m == IndexOf(s, sep) IN
    IF m = 0 THEN <<s>>
    ELSE <<SubSeq(s, 1, m - 1)>> \o Split(SubSeq(s, m + 1, Len(s)), sep)

RECURSIVE TrimLeft(_)
TrimLeft(s) ==
    IF Len(s) > 0 /\ IsSpace(Ch(s, 1)) THEN TrimLeft(SubSeq(s, 2, Len(s))) ELSE s

RECURSIVE TrimRight(_)
TrimRight(s) ==
    IF Len(s) > 0 /\ IsSpace(Ch(s, Len(s))) THEN TrimRight(SubSeq(s, 1, Len(s) - 1)) ELSE s

\* mutant: trailing white space is kept
TrimSpaceLeftOnly(s) == TrimLeft(s)

\* strings.TrimSpace
TrimSpace(s) == TrimRight(TrimLeft(s))

\* strings.Join(elems, sep)
RECURSIVE Join(_, _)
Join(elems, sep) ==
    IF Len(elems) = 0 THEN ""
    ELSE IF Len(elems) = 1 THEN elems[1]
    ELSE elems[1] \o sep \o Join(Tail(elems), sep)

\* strings.Contains
Contains(s, sub) ==
    \E i \in 1..(Len(s) - Len(sub) + 1) : SubSeq(s, i, i + Len(sub) - 1) = sub

HasPrefix(s, p) == Len(s) >= Len(p) /\ SubSeq(s, 1, Len(p)) = p

\* every sequence without repetition over the set S, of length n
RECURSIVE InjSeqs(_, _)
InjSeqs(S, n) ==
    IF n = 0 THEN {<<>>}
    ELSE UNION {{Append(q, x) : x \in S \ {q[i] : i \in 1..Len(q)}} : q \in InjSeqs(S, n - 1)}

Perms(S) == InjSeqs(S, Cardinality(S))

(***************************************************************************)
(* The introspected schema (graphql.Schema of the introspection library)   *)
(***************************************************************************)
\* A type reference: wrappers outermost first, around a named type.
TypeRef(wrap, name) == [wrap |-> wrap, name |-> name]

RECURSIVE RenderWrapped(_, _)
RenderWrapped(wrap, name) ==
    IF Len(wrap) = 0 THEN name
    ELSE IF Head(wrap) = "LIST" THEN "[" \o RenderWrapped(Tail(wrap), name) \o "]"
    ELSE RenderWrapped(Tail(wrap), name) \o "!"

RenderType(ref) == RenderWrapped(ref.wrap, ref.name)

RenderArg(a) == a.name \o ": " \o RenderType(a.type)

\* graphql.PrettyPrintField: the one-line signature of an operation field.
PrettyPrintField(f) ==
    IF Len(f.args) = 0 THEN f.name \o ": " \o RenderType(f.type)
    ELSE f.name \o "(" \o Join([i \in 1..Len(f.args) |-> RenderArg(f.args[i])], ", ")
         \o "): " \o RenderType(f.type)

Field(name, args, type) == [name |-> name, args |-> args, type |-> type]

TypeDef(name, kind, fields, values) ==
    [name |-> name, kind |-> kind, fields |-> fields, values |-> values]

QueryPool ==
    { Field("a", <<>>, TypeRef(<<"NON_NULL">>, "S")),
      Field("b", <<[name |-> "id", type |-> TypeRef(<<"NON_NULL">>, "S")]>>, TypeRef(<<>>, "ab")) }

MutationPool ==
    { Field("c", <<[name |-> "x", type |-> TypeRef(<<>>, "I")],
                   [name |-> "y", type |-> TypeRef(<<"NON_NULL", "LIST", "NON_NULL">>, "S")]>>,
            TypeRef(<<"LIST">>, "ab")) }

TypePool ==
    { TypeDef("ab", "OBJECT", <<[name |-> "id", type |-> TypeRef(<<"NON_NULL">>, "S")]>>, <<>>) }

\* schemas as far as describe tells them apart: the index forgets declaration order
UpTo(fields) == {SubSeq(fields, 1, n) : n \in 0..Len(fields)}

QueryList == <<CHOOSE f \in QueryPool : f.name = "a", CHOOSE f \in QueryPool : f.name = "b">>

TypeList == <<CHOOSE t \in TypePool : t.name = "ab">>

SeqsUpTo(S) == UNION {InjSeqs(S, n) : n \in 0..Cardinality(S)}

Schemas ==
    { [Queries |-> q, Mutations |-> m, Types |-> t] :
        q \in SeqsUpTo(QueryPool), m \in SeqsUpTo(MutationPool), t \in SeqsUpTo(TypePool) }

DescribeSchemas ==
    { [Queries |-> q, Mutations |-> m, Types |-> t] :
        q \in UpTo(QueryList), m \in SeqsUpTo(MutationPool), t \in UpTo(TypeList) }

EmptySchema == [Queries |-> <<>>, Mutations |-> <<>>, Types |-> <<>>]

(***************************************************************************)
(* graphql.GetSchemaMapString: entity name -> rendered description block   *)
(***************************************************************************)
Put(m, k, v) == [x \in (DOMAIN m) \cup {k} |-> IF x = k THEN v ELSE m[x]]

EmptyMap == [x \in {} |-> ""]

TabLines(items) == Join([i \in 1..Len(items) |-> "\t" \o items[i]], "\n")

DescribeOperation(f, label) ==
    "# " \o f.name \o " (" \o label \o ")\n"
    \o (IF Len(f.args) = 0 THEN ""
        ELSE "Arguments:\n" \o TabLines([i \in 1..Len(f.args) |-> RenderArg(f.args[i])]) \o "\n")
    \o "Return Type: " \o RenderType(f.type)

DescribeType(t) ==
    "# " \o t.name \o " (" \o t.kind \o ")"
    \o (CASE t.kind = "OBJECT" ->
               "\nFields:\n" \o TabLines([i \in 1..Len(t.fields) |-> RenderArg(t.fields[i])])
          [] t.kind = "INPUT_OBJECT" ->
               "\nInput Fields:\n" \o TabLines([i \in 1..Len(t.fields) |-> RenderArg(t.fields[i])])
          [] t.kind = "ENUM" -> "\nValues:\n" \o TabLines(t.values)
          [] OTHER -> "")

SchemaEntries(schema) ==
    [i \in 1..Len(schema.Queries) |->
        <<schema.Queries[i].name, DescribeOperation(schema.Queries[i], "Query")>>]
    \o [i \in 1..Len(schema.Mutations) |->
        <<schema.Mutations[i].name, DescribeOperation(schema.Mutations[i], "Mutation")>>]
    \o [i \in 1..Len(schema.Types) |-> <<schema.Types[i].name, DescribeType(schema.Types[i])>>]

RECURSIVE PutAll(_, _)
PutAll(m, entries) ==
    IF Len(entries) = 0 THEN m
    ELSE PutAll(Put(m, Head(entries)[1], Head(entries)[2]), Tail(entries))

GetSchemaMapString(schema) == PutAll(EmptyMap, SchemaEntries(schema))

(***************************************************************************)
(* describeGraphQLEntities, after the introspection fetch                  *)
(***************************************************************************)
MaxExamples == 3

\* mutant: the loop stops one key late (> for >=)
RECURSIVE exampleLoopLate(_, _, _)
exampleLoopLate(order, i, example) ==
    IF i > Len(order) THEN example
    ELSE LET e == Append(example, order[i]) IN
         IF Len(e) > MaxExamples THEN e ELSE exampleLoopLate(order, i + 1, e)

\* for k := range mapp { example = append(example, k); if len(example) >= 3 { break } }
\* order is the order in which this range statement happens to yield the keys.
RECURSIVE exampleLoop(_, _, _)
exampleLoop(order, i, example) ==
    IF i > Len(order) THEN example
    ELSE LET e == Append(example, order[i]) IN
         IF Len(e) >= MaxExamples THEN e ELSE exampleLoop(order, i + 1, e)

NotFoundMessage(entity, example) ==
    "entity '" \o entity \o "' not found in schema. Example entities in the schema: "
    \o Join(example, ", ")

\* mutant: a miss returns the descriptions gathered so far along with the error
RECURSIVE describeLoopPartial(_, _, _, _, _)
describeLoopPartial(mapp, entitiesList, i, descriptions, lookups) ==
    IF i > Len(entitiesList)
    THEN {[result |-> Join(descriptions, "\n\n"), err |-> "", failed |-> FALSE,
           entity |-> "", example |-> <<>>, lookups |-> lookups]}
    ELSE LET entity == TrimSpace(entitiesList[i]) IN
         IF entity \in DOMAIN mapp
         THEN describeLoopPartial(mapp, entitiesList, i + 1,
                                  Append(descriptions, mapp[entity]), Append(lookups, entity))
         ELSE {[result |-> Join(descriptions, "\n\n"),
                err |-> NotFoundMessage(entity, exampleLoop(order, 1, <<>>)),
                failed |-> TRUE, entity |-> entity,
                example |-> exampleLoop(order, 1, <<>>),
                lookups |-> Append(lookups, entity)] : order \in Perms(DOMAIN mapp)}

\* mutant: a miss does not end the loop; the error names the last absent token
RECURSIVE describeLoopLastMiss(_, _, _, _, _)
describeLoopLastMiss(mapp, entitiesList, i, descriptions, lookups) ==
    IF i > Len(entitiesList)
    THEN {[result |-> Join(descriptions, "\n\n"), err |-> "", failed |-> FALSE,
           entity |-> "", example |-> <<>>, lookups |-> lookups]}
    ELSE LET entity == TrimSpace(entitiesList[i]) IN
         IF entity \in DOMAIN mapp
         THEN describeLoopLastMiss(mapp, entitiesList, i + 1,
                                   Append(descriptions, mapp[entity]), Append(lookups, entity))
         ELSE LET rest == [j \in 1..(Len(entitiesList) - i) |-> TrimSpace(entitiesList[i + j])]
                  missed == {j \in 1..Len(rest) : rest[j] \notin DOMAIN mapp}
                  named == IF missed = {} THEN entity
                           ELSE rest[CHOOSE j \in missed : \A k \in missed : k <= j]
              IN  {[result |-> "",
                    err |-> NotFoundMessage(named, exampleLoop(order, 1, <<>>)),
                    failed |-> TRUE, entity |-> named,
                    example |-> exampleLoop(order, 1, <<>>),
                    lookups |-> Append(lookups, entity) \o rest] : order \in Perms(DOMAIN mapp)}

\* The loop over entitiesList; lookups records the keys looked up in mapp.
\* The result is the set of values the loop can return: a range over a Go map
\* yields the keys in an order the language leaves open.
RECURSIVE describeLoop(_, _, _, _, _)
describeLoop(mapp, entitiesList, i, descriptions, lookups) ==
    IF i > Len(entitiesList)
    THEN {[result |-> Join(descriptions, "\n\n"), err |-> "", failed |-> FALSE,
           entity |-> "", example |-> <<>>, lookups |-> lookups]}
    ELSE LET entity == TrimSpace(entitiesList[i]) IN
         IF entity \in DOMAIN mapp
         THEN describeLoop(mapp, entitiesList, i + 1, Append(descriptions, mapp[entity]),
                           Append(lookups, entity))
         ELSE {[result |-> "", err |-> NotFoundMessage(entity, exampleLoop(order, 1, <<>>)),
                failed |-> TRUE, entity |-> entity,
                example |-> exampleLoop(order, 1, <<>>),
                lookups |-> Append(lookups, entity)] : order \in Perms(DOMAIN mapp)}

\* mutant: a schema fetched by an earlier call is served again
IntrospectCached(endpointSchema, ok) ==
    IF ok THEN [err |-> "", Schema |-> IF last.fetched THEN last.res ELSE endpointSchema]
    ELSE [err |-> "introspection request failed", Schema |-> EmptySchema]

\* graphql.Introspect: the endpoint answers with its current schema, or the call fails.
Introspect(endpointSchema, ok) ==
    IF ok THEN [err |-> "", Schema |-> endpointSchema]
    ELSE [err |-> "introspection request failed", Schema |-> EmptySchema]

NoDescription ==
    [result |-> "", err |-> "", failed |-> FALSE, entity |-> "", example |-> <<>>,
     lookups |-> <<>>]

\* describeGraphQLEntities, given what Introspect returned: the values it can return
describeGraphQLEntities(res, entities) ==
    IF res.err # "" THEN {[NoDescription EXCEPT !.err = res.err]}
    ELSE LET mapp == GetSchemaMapString(res.Schema)
             entitiesList == Split(entities, ",")
         IN  describeLoop(mapp, entitiesList, 1, <<>>, <<>>)

\* mutant: the fields are written last first
RECURSIVE writeFieldsReversed(_, _, _)
writeFieldsReversed(sb, fields, i) ==
    IF i > Len(fields) THEN sb
    ELSE writeFieldsReversed(sb \o PrettyPrintField(fields[Len(fields) + 1 - i]) \o "\n",
                             fields, i + 1)

RECURSIVE writeFields(_, _, _)
writeFields(sb, fields, i) ==
    IF i > Len(fields) THEN sb
    ELSE writeFields(sb \o PrettyPrintField(fields[i]) \o "\n", fields, i + 1)

listGraphQLQueries(res) ==
    IF res.err # "" THEN [out |-> "", err |-> res.err]
    ELSE [out |-> writeFields("Queries:\n", res.Schema.Queries, 1), err |-> ""]

listGraphQLMutations(res) ==
    IF res.err # "" THEN [out |-> "", err |-> res.err]
    ELSE [out |-> writeFields("Mutations:\n", res.Schema.Mutations, 1), err |-> ""]

(***************************************************************************)
(* JSON documents and encoding/json.Unmarshal into map[string]string       *)
(***************************************************************************)
StrVal(s) == [isString |-> TRUE, s |-> s]

NumVal == [isString |-> FALSE, s |-> "0"]

Doc(kind, members) == [kind |-> kind, members |-> members]

NoMembers == [k \in {} |-> NumVal]

RawKeys == {"k", "K", "x-b"}

HeaderValues == {"u", "e"}

ObjectDocs ==
    { Doc("object", mm) :
        mm \in UNION {[S -> {StrVal(v) : v \in HeaderValues} \cup {NumVal}] :
                        S \in {T \in SUBSET RawKeys : Cardinality(T) <= MaxMembers}} }

\* "empty" is the empty string, "invalid" malformed text, "array" a well-formed non-object
JsonDocs ==
    {Doc("empty", NoMembers), Doc("invalid", NoMembers), Doc("null", NoMembers),
     Doc("array", NoMembers)} \cup ObjectDocs

Unmarshal(doc) ==
    CASE doc.kind = "empty" -> [err |-> "unexpected end of JSON input", m |-> EmptyMap]
      [] doc.kind = "invalid" ->
            [err |-> "invalid character 'x' looking for beginning of value", m |-> EmptyMap]
      [] doc.kind = "null" -> [err |-> "", m |-> EmptyMap]
      [] doc.kind = "array" ->
            [err |-> "json: cannot unmarshal array into Go value of type map[string]string",
             m |-> EmptyMap]
      [] OTHER ->
            [err |-> IF \E k \in DOMAIN doc.members : ~doc.members[k].isString
                     THEN "json: cannot unmarshal number into Go value of type string"
                     ELSE "",
             m |-> [k \in DOMAIN doc.members |->
                      IF doc.members[k].isString THEN doc.members[k].s ELSE ""]]

(***************************************************************************)
(* http.Header                                                             *)
(***************************************************************************)
LowerLetters == "abcdefghijklmnopqrstuvwxyz"

UpperLetters == "ABCDEFGHIJKLMNOPQRSTUVWXYZ"

CharsOf(s) == {Ch(s, i) : i \in 1..Len(s)}

UpperOf == [c \in CharsOf(LowerLetters) |-> Ch(UpperLetters, IndexOf(LowerLetters, c))]

LowerOf == [c \in CharsOf(UpperLetters) |-> Ch(LowerLetters, IndexOf(UpperLetters, c))]

ToUpper(c) == IF c \in DOMAIN UpperOf THEN UpperOf[c] ELSE c

ToLower(c) == IF c \in DOMAIN LowerOf THEN LowerOf[c] ELSE c

\* the token characters of RFC 7230 that a TLA+ string can hold
TokenChars ==
    CharsOf(LowerLetters) \cup CharsOf(UpperLetters) \cup CharsOf("0123456789!#$%&*+-.^_|~")

IsTokenChar(c) == c \in TokenChars

RECURSIVE canonLoop(_, _, _)
canonLoop(s, i, upper) ==
    IF i > Len(s) THEN ""
    ELSE LET c == Ch(s, i) IN
         (IF upper THEN ToUpper(c) ELSE ToLower(c)) \o canonLoop(s, i + 1, c = "-")

\* textproto.CanonicalMIMEHeaderKey
CanonicalMIMEHeaderKey(s) ==
    IF \E i \in 1..Len(s) : ~IsTokenChar(Ch(s, i)) THEN s ELSE canonLoop(s, 1, TRUE)

\* http.Header.Set
HeaderSet(h, k, v) == Put(h, CanonicalMIMEHeaderKey(k), v)

\* for k, v := range m { h.Set(k, v) }, the range yielding the keys in the given order
RECURSIVE setInOrder(_, _, _, _)
setInOrder(h, m, order, i) ==
    IF i > Len(order) THEN h
    ELSE setInOrder(HeaderSet(h, order[i], m[order[i]]), m, order, i + 1)

\* every header store the loop can leave, over the orders a map range can take
SetAll(h, m) == {setInOrder(h, m, order, 1) : order \in Perms(DOMAIN m)}

\* getHeaders: the header stores it can leave (and return)
getHeaders(cur, e) ==
    IF Cardinality(DOMAIN cur) = 0
    THEN IF e.kind # "empty"
         THEN LET tmp == Unmarshal(e) IN
              IF tmp.err # "" THEN {cur} ELSE SetAll(cur, tmp.m)
         ELSE {cur}
    ELSE {cur}

\* mutant: the environment headers are applied before the argument is parsed
setHeadersEnvFirst(cur, headersJSON, e) ==
    LET newHeaders == Unmarshal(headersJSON)
        envHeaders == Unmarshal(e)
        afterEnv == IF e.kind # "empty" /\ envHeaders.err = ""
                    THEN SetAll(cur, envHeaders.m) ELSE {cur}
    IN  IF newHeaders.err # ""
        THEN {[err |-> "failed to parse headers JSON: " \o newHeaders.err, h |-> h1] :
                h1 \in afterEnv}
        ELSE IF e.kind # "empty" /\ envHeaders.err # ""
        THEN {[err |-> "failed to parse env headers JSON: " \o envHeaders.err, h |-> cur]}
        ELSE {[err |-> "", h |-> h2] : h2 \in UNION {SetAll(h1, newHeaders.m) : h1 \in afterEnv}}

\* setHeaders: the (error, header store) pairs it can end with
setHeaders(cur, headersJSON, e) ==
    LET newHeaders == Unmarshal(headersJSON) IN
    IF newHeaders.err # ""
    THEN {[err |-> "failed to parse headers JSON: " \o newHeaders.err, h |-> cur]}
    ELSE IF e.kind # "empty"
         THEN LET envHeaders == Unmarshal(e) IN
              IF envHeaders.err # ""
              THEN {[err |-> "failed to parse env headers JSON: " \o envHeaders.err, h |-> cur]}
              ELSE {[err |-> "", h |-> h2] :
                      h2 \in UNION {SetAll(h1, newHeaders.m) : h1 \in SetAll(cur, envHeaders.m)}}
         ELSE {[err |-> "", h |-> h2] : h2 \in SetAll(cur, newHeaders.m)}

(***************************************************************************)
(* The tool handlers (registerTools), one action per tool call            *)
(***************************************************************************)
toolSuccess(message) == [isError |-> FALSE, text |-> message]

toolError(message) == [isError |-> TRUE, text |-> message]

AuthHint == ". Do you need no send an Authorization header?"

NoCall ==
    [tool |-> "none", entities |-> "", isError |-> FALSE, text |-> "",
     fetched |-> FALSE, res |-> EmptySchema, requested |-> FALSE, sent |-> EmptyMap,
     afterRedeploy |-> FALSE, desc |-> NoDescription]

ListQueriesTool ==
    /\ ~crashed
    /\ fetches < MaxFetches
    /\ \E hdrs \in getHeaders(currentHeaders, env), ok \in BOOLEAN :
         LET res == Introspect(upstream, ok)
             queries == listGraphQLQueries(res)
             r == IF queries.err # ""
                  THEN toolError("Failed to list queries: " \o queries.err \o AuthHint)
                  ELSE toolSuccess(queries.out)
         IN  /\ currentHeaders' = hdrs
             /\ fetches' = fetches + 1
             /\ last' = [NoCall EXCEPT !.tool = "list_queries", !.isError = r.isError,
                                       !.text = r.text, !.fetched = ok, !.res = res.Schema,
                                       !.requested = TRUE, !.sent = hdrs,
                                       !.afterRedeploy = (redeployed = "changed")]
             /\ redeployed' = IF ok THEN "fresh" ELSE redeployed
    /\ UNCHANGED <<env, upstream, request, pinned, procs, crashed>>

ListMutationsTool ==
    /\ ~crashed
    /\ fetches < MaxFetches
    /\ \E hdrs \in getHeaders(currentHeaders, env), ok \in BOOLEAN :
         LET res == Introspect(upstream, ok)
             mutations == listGraphQLMutations(res)
             r == IF mutations.err # ""
                  THEN toolError("Failed to list mutations: " \o mutations.err \o AuthHint)
                  ELSE toolSuccess(mutations.out)
         IN  /\ currentHeaders' = hdrs
             /\ fetches' = fetches + 1
             /\ last' = [NoCall EXCEPT !.tool = "list_mutations", !.isError = r.isError,
                                       !.text = r.text, !.fetched = ok, !.res = res.Schema,
                                       !.requested = TRUE, !.sent = hdrs,
                                       !.afterRedeploy = (redeployed = "changed")]
             /\ redeployed' = IF ok THEN "fresh" ELSE redeployed
    /\ UNCHANGED <<env, upstream, request, pinned, procs, crashed>>

DescribeTool(entities) ==
    /\ ~crashed
    /\ fetches < MaxFetches
    /\ \E hdrs \in getHeaders(currentHeaders, env), ok \in BOOLEAN :
         LET res == Introspect(upstream, ok) IN
         \E description \in describeGraphQLEntities(res, entities) :
           LET r == IF description.err # ""
                    THEN toolError("Failed to describe entities: " \o description.err \o AuthHint)
                    ELSE toolSuccess(description.result)
           IN  /\ currentHeaders' = hdrs
               /\ fetches' = fetches + 1
               /\ last' = [NoCall EXCEPT !.tool = "describe", !.entities = entities,
                                         !.isError = r.isError, !.text = r.text,
                                         !.fetched = ok, !.res = res.Schema,
                                         !.requested = TRUE, !.sent = hdrs,
                                         !.afterRedeploy = (redeployed = "changed"),
                                         !.desc = description]
               /\ redeployed' = IF ok THEN "fresh" ELSE redeployed
    /\ UNCHANGED <<env, upstream, request, pinned, procs, crashed>>

\* json.Unmarshal of the variables argument into map[string]interface{}
UnmarshalVariables(doc) ==
    CASE doc.kind = "empty" -> "unexpected end of JSON input"
      [] doc.kind = "invalid" -> "invalid character 'x' looking for beginning of value"
      [] doc.kind = "array" ->
            "json: cannot unmarshal array into Go value of type map[string]interface {}"
      [] OTHER -> ""

VariableDocs == {Doc("empty", NoMembers), Doc("invalid", NoMembers), Doc("object", NoMembers)}

InvokeGraphqlTool(query, mutation, variablesJSON) ==
    LET operation == IF mutation # "" THEN mutation ELSE query IN
    /\ ~crashed
    /\ IF operation = ""
       THEN /\ last' = [NoCall EXCEPT !.tool = "invoke_graphql", !.isError = TRUE,
                                      !.text = "No valid query or mutation provided"]
            /\ UNCHANGED currentHeaders
       ELSE IF variablesJSON.kind # "empty" /\ UnmarshalVariables(variablesJSON) # ""
       THEN /\ last' = [NoCall EXCEPT !.tool = "invoke_graphql", !.isError = TRUE,
                          !.text = "Failed to invoke GraphQL operation. Operation: "
                                   \o operation \o " variables: <variables> error: "
                                   \o "failed to parse variables JSON: "
                                   \o UnmarshalVariables(variablesJSON) \o ". "]
            /\ UNCHANGED currentHeaders
       ELSE \E hdrs \in getHeaders(currentHeaders, env), ok \in BOOLEAN :
              /\ currentHeaders' = hdrs
              /\ last' = [NoCall EXCEPT !.tool = "invoke_graphql", !.isError = ~ok,
                            !.text = IF ok THEN "<response JSON>"
                                     ELSE "Failed to invoke GraphQL operation. Operation: "
                                          \o operation
                                          \o " variables: <variables> error: <error>. ",
                            !.requested = TRUE, !.sent = hdrs]
    /\ UNCHANGED <<env, upstream, fetches, request, pinned, redeployed, procs, crashed>>

\* the canonical header names a set_headers argument names
NamedBy(headersJSON) ==
    IF headersJSON.kind = "object"
    THEN {CanonicalMIMEHeaderKey(k) : k \in DOMAIN headersJSON.members}
    ELSE {}

SetHeadersTool(headersJSON) ==
    /\ ~crashed
    /\ \E o \in setHeaders(currentHeaders, headersJSON, env) :
         LET r == IF o.err # "" THEN toolError("Failed to set headers: " \o o.err)
                  ELSE toolSuccess("Headers updated successfully")
             kept == (DOMAIN pinned) \ NamedBy(headersJSON)
             set == IF o.err # "" THEN {} ELSE NamedBy(headersJSON)
         IN  /\ currentHeaders' = o.h
             /\ last' = [NoCall EXCEPT !.tool = "set_headers", !.isError = r.isError,
                                       !.text = r.text]
             /\ pinned' = [k \in kept \cup set |-> IF k \in set THEN o.h[k] ELSE pinned[k]]
    /\ UNCHANGED <<env, upstream, fetches, request, redeployed, procs, crashed>>

\* the endpoint's schema is redeployed
SchemaChange ==
    /\ ~crashed
    /\ upstream' \in Schemas \ {upstream}
    /\ redeployed' = IF redeployed = "none" THEN "none" ELSE "changed"
    /\ UNCHANGED <<env, currentHeaders, fetches, request, last, pinned, procs, crashed>>

(***************************************************************************)
(* Specifications                                                          *)
(***************************************************************************)
\* describe arguments: up to MaxTokens comma-separated pieces
TokenPool == {"a", " a ", "\tb", "ab", ""}

RECURSIVE TokenSeqs(_)
TokenSeqs(n) ==
    IF n = 0 THEN {<<>>} ELSE {Append(q, t) : q \in TokenSeqs(n - 1), t \in TokenPool}

Requests == {Join(q, ",") : q \in UNION {TokenSeqs(n) : n \in 1..MaxTokens}}

IdleProc ==
    [pc |-> "idle", tool |-> "none", tmp |-> EmptyMap, todo |-> {}, ok |-> FALSE,
     res |-> EmptySchema, sent |-> EmptyMap]

IdleProcs == [p \in 1..NProcs |-> IdleProc]

\* describe as a function of (schema, requested): both drawn at the start
InitDescribe ==
    /\ env = Doc("empty", NoMembers)
    /\ currentHeaders = EmptyMap
    /\ upstream \in DescribeSchemas
    /\ fetches = 0
    /\ request \in Requests
    /\ last = NoCall
    /\ pinned = EmptyMap
    /\ redeployed = "none"
    /\ procs = IdleProcs
    /\ crashed = FALSE

NextDescribe == DescribeTool(request)

SpecDescribe == InitDescribe /\ [][NextDescribe]_vars

DescribeArgs == {"a", "b, ab"}

\* the listing and describe tools against an endpoint whose schema changes
InitSchema ==
    /\ env = Doc("empty", NoMembers)
    /\ currentHeaders = EmptyMap
    /\ upstream \in Schemas
    /\ fetches = 0
    /\ request = ""
    /\ last = NoCall
    /\ pinned = EmptyMap
    /\ redeployed = "none"
    /\ procs = IdleProcs
    /\ crashed = FALSE

NextSchema ==
    \/ ListQueriesTool
    \/ ListMutationsTool
    \/ \E entities \in DescribeArgs : DescribeTool(entities)
    \/ SchemaChange

SpecSchema == InitSchema /\ [][NextSchema]_vars

EnvDocs ==
    { Doc("empty", NoMembers), Doc("invalid", NoMembers), Doc("null", NoMembers),
      Doc("object", [k \in {"K"} |-> StrVal("e")]),
      Doc("object", [k \in {"k", "x-b"} |-> StrVal("e")]),
      Doc("object", [k \in {"K", "x-b"} |-> IF k = "K" THEN StrVal("e") ELSE NumVal]) }

SampleSchema == CHOOSE s \in Schemas : Len(s.Queries) = 1 /\ Len(s.Mutations) = 1 /\ Len(s.Types) = 0

Operations == {"", "{ a }"}

\* all five tools against a fixed schema, under every environment value
InitHeaders ==
    /\ env \in EnvDocs
    /\ currentHeaders = EmptyMap
    /\ upstream = SampleSchema
    /\ fetches = 0
    /\ request = ""
    /\ last = NoCall
    /\ pinned = EmptyMap
    /\ redeployed = "none"
    /\ procs = IdleProcs
    /\ crashed = FALSE

NextHeaders ==
    \/ ListQueriesTool
    \/ ListMutationsTool
    \/ \E entities \in DescribeArgs : DescribeTool(entities)
    \/ \E query, mutation \in Operations, variablesJSON \in VariableDocs :
          InvokeGraphqlTool(query, mutation, variablesJSON)
    \/ \E headersJSON \in JsonDocs : SetHeadersTool(headersJSON)

SpecHeaders == InitHeaders /\ [][NextHeaders]_vars

(***************************************************************************)
(* Concurrent invocations of the listing and describe tools, one action    *)
(* per access to the header store                                          *)
(***************************************************************************)
ListingTools == {"list_queries", "list_mutations", "describe"}

Running == {p \in 1..NProcs : procs[p].pc # "idle"}

\* a handler starts and calls getHeaders
Start(p, tool) ==
    /\ ~crashed
    /\ procs[p].pc = "idle"
    /\ fetches + Cardinality(Running) < MaxFetches
    /\ procs' = [procs EXCEPT ![p] = [IdleProc EXCEPT !.pc = "getHeaders", !.tool = tool]]
    /\ UNCHANGED <<env, currentHeaders, upstream, fetches, request, last, pinned, redeployed,
                   crashed>>

\* getHeaders reads len(currentHeaders) and, when it is zero, parses the environment value
GetHeadersCheck(p) ==
    /\ ~crashed
    /\ procs[p].pc = "getHeaders"
    /\ LET tmp == Unmarshal(env)
           fill == /\ Cardinality(DOMAIN currentHeaders) = 0
                   /\ env.kind # "empty"
                   /\ tmp.err = ""
                   /\ DOMAIN tmp.m # {}
       IN  procs' = [procs EXCEPT ![p] =
                        IF fill THEN [@ EXCEPT !.pc = "setEnv", !.tmp = tmp.m, !.todo = DOMAIN tmp.m]
                        ELSE [@ EXCEPT !.pc = "introspect"]]
    /\ UNCHANGED <<env, currentHeaders, upstream, fetches, request, last, pinned, redeployed,
                   crashed>>

\* one currentHeaders.Set(k, v) of getHeaders' loop over the environment headers
GetHeadersSet(p) ==
    /\ ~crashed
    /\ procs[p].pc = "setEnv"
    /\ \E k \in procs[p].todo :
         /\ currentHeaders' = HeaderSet(currentHeaders, k, procs[p].tmp[k])
         /\ procs' = [procs EXCEPT ![p] =
                        [@ EXCEPT !.todo = @ \ {k},
                                  !.pc = IF procs[p].todo = {k} THEN "introspect" ELSE "setEnv"]]
    /\ UNCHANGED <<env, upstream, fetches, request, last, pinned, redeployed, crashed>>

\* graphql.Introspect reads the header store it was handed and queries the endpoint
IntrospectStep(p) ==
    /\ ~crashed
    /\ procs[p].pc = "introspect"
    /\ \E ok \in BOOLEAN :
         /\ procs' = [procs EXCEPT ![p] =
                        [@ EXCEPT !.pc = "respond", !.ok = ok,
                                  !.res = Introspect(upstream, ok).Schema,
                                  !.sent = currentHeaders]]
         /\ redeployed' = IF ok THEN "fresh" ELSE redeployed
    /\ fetches' = fetches + 1
    /\ UNCHANGED <<env, currentHeaders, upstream, request, last, pinned, crashed>>

\* the handler renders the fetched schema and returns
Respond(p) ==
    /\ ~crashed
    /\ procs[p].pc = "respond"
    /\ LET me == procs[p]
           res == [err |-> IF me.ok THEN "" ELSE "introspection request failed",
                   Schema |-> me.res]
           entities == IF me.tool = "describe" THEN "a" ELSE ""
       IN  \E description \in IF me.tool = "describe" THEN describeGraphQLEntities(res, entities)
                              ELSE {NoDescription} :
             LET r == CASE me.tool = "list_queries" ->
                             IF res.err # ""
                             THEN toolError("Failed to list queries: " \o res.err \o AuthHint)
                             ELSE toolSuccess(listGraphQLQueries(res).out)
                        [] me.tool = "list_mutations" ->
                             IF res.err # ""
                             THEN toolError("Failed to list mutations: " \o res.err \o AuthHint)
                             ELSE toolSuccess(listGraphQLMutations(res).out)
                        [] OTHER ->
                             IF description.err # ""
                             THEN toolError("Failed to describe entities: "
                                            \o description.err \o AuthHint)
                             ELSE toolSuccess(description.result)
             IN  last' = [NoCall EXCEPT !.tool = me.tool, !.entities = entities,
                                        !.isError = r.isError, !.text = r.text,
                                        !.fetched = me.ok, !.res = me.res,
                                        !.requested = TRUE, !.sent = me.sent,
                                        !.desc = description]
    /\ procs' = [procs EXCEPT ![p] = IdleProc]
    /\ UNCHANGED <<env, currentHeaders, upstream, fetches, request, pinned, redeployed, crashed>>

\* what the next step of p does to currentHeaders
Access(p) ==
    CASE procs[p].pc = "getHeaders" -> "read"
      [] procs[p].pc = "setEnv" -> "write"
      [] procs[p].pc = "introspect" -> "read"
      [] OTHER -> "none"

\* two invocations are about to access the header store, one of them writing
DataRace ==
    \E p, q \in 1..NProcs :
        /\ p # q
        /\ Access(p) # "none"
        /\ Access(q) # "none"
        /\ "write" \in {Access(p), Access(q)}

\* unsynchronised access to a Go map while it is written: the runtime may end
\* the process ("fatal error: concurrent map writes"), or the accesses take
\* effect in either order (the steps above)
RuntimeFatal ==
    /\ ~crashed
    /\ DataRace
    /\ crashed' = TRUE
    /\ UNCHANGED <<env, currentHeaders, upstream, fetches, request, last, pinned, redeployed,
                   procs>>

InitConc ==
    /\ env \in EnvDocs
    /\ currentHeaders = EmptyMap
    /\ upstream = SampleSchema
    /\ fetches = 0
    /\ request = ""
    /\ last = NoCall
    /\ pinned = EmptyMap
    /\ redeployed = "none"
    /\ procs = IdleProcs
    /\ crashed = FALSE

NextConc ==
    \/ \E p \in 1..NProcs, tool \in ListingTools : Start(p, tool)
    \/ \E p \in 1..NProcs : GetHeadersCheck(p)
    \/ \E p \in 1..NProcs : GetHeadersSet(p)
    \/ \E p \in 1..NProcs : IntrospectStep(p)
    \/ \E p \in 1..NProcs : Respond(p)
    \/ RuntimeFatal

SpecConc == InitConc /\ [][NextConc]_vars

(***************************************************************************)
(* Reference definitions for describe, stated without the code's loops     *)
(***************************************************************************)
SepPos(r, sep) == {i \in 1..Len(r) : Ch(r, i) = sep}

NumPieces(r, sep) == Cardinality(SepPos(r, sep)) + 1

\* the position of the k-th separator of r
NthSep(r, sep, k) ==
    CHOOSE i \in SepPos(r, sep) : Cardinality({j \in SepPos(r, sep) : j <= i}) = k

\* the k-th of the pieces the separators cut r into
Piece(r, sep, k) ==
    LET lo == IF k = 1 THEN 0 ELSE NthSep(r, sep, k - 1)
        hi == IF k = NumPieces(r, sep) THEN Len(r) + 1 ELSE NthSep(r, sep, k)
    IN  SubSeq(r, lo + 1, hi - 1)

RefTrim(t) ==
    LET ns == {i \in 1..Len(t) : ~IsSpace(Ch(t, i))} IN
    IF ns = {} THEN ""
    ELSE SubSeq(t, CHOOSE i \in ns : \A j \in ns : i <= j, CHOOSE i \in ns : \A j \in ns : j <= i)

RefTokens(r) == [k \in 1..NumPieces(r, ",") |-> RefTrim(Piece(r, ",", k))]

\* the last call was a describe that got a schema back
Described == last.tool = "describe" /\ last.fetched

LastIndex == GetSchemaMapString(last.res)

LastTokens == RefTokens(last.entities)

AbsentIn(idx, toks) == {k \in 1..Len(toks) : toks[k] \notin DOMAIN idx}

Absent == AbsentIn(LastIndex, LastTokens)

FirstOf(S) == CHOOSE k \in S : \A j \in S : k <= j

\* where the k-th description starts in the joined result
RECURSIVE OffsetOf(_, _, _)
OffsetOf(idx, toks, k) ==
    IF k = 1 THEN 0 ELSE OffsetOf(idx, toks, k - 1) + Len(idx[toks[k - 1]]) + 2

(***************************************************************************)
(* C1: describe is all-or-nothing. When some trimmed token of the request  *)
(* is not a key of the index, describe returns an error and the empty      *)
(* result, and neither the result nor the tool's reply contains the        *)
(* description of a token that was found.                                  *)
(***************************************************************************)
C1_AllOrNothing ==
    Described =>
        LET idx == LastIndex
            toks == LastTokens
        IN  AbsentIn(idx, toks) # {} =>
              /\ last.isError
              /\ last.desc.err # ""
              /\ last.desc.result = ""
              /\ \A k \in 1..Len(toks) :
                   toks[k] \in DOMAIN idx =>
                      /\ ~Contains(last.desc.result, idx[toks[k]])
                      /\ ~Contains(last.text, idx[toks[k]])

C1_Witness ==
    /\ Described
    /\ Len(LastTokens) >= 2
    /\ LastTokens[1] \in DOMAIN LastIndex
    /\ Absent # {}
    /\ last.isError

(***************************************************************************)
(* C2: describe aborts at the first miss. The tokens are looked up in      *)
(* request order up to and including the first absent one and no further,  *)
(* and the error names that first absent token.                            *)
(***************************************************************************)
C2_AbortsAtFirstMiss ==
    Described =>
        LET toks == LastTokens
            absent == AbsentIn(LastIndex, toks)
        IN  absent # {} =>
              LET first == FirstOf(absent) IN
              /\ last.desc.failed
              /\ last.desc.entity = toks[first]
              /\ last.desc.lookups = [i \in 1..first |-> toks[i]]
              /\ HasPrefix(last.desc.err, "entity '" \o toks[first] \o "' not found in schema. ")
              /\ Contains(last.text, "entity '" \o toks[first] \o "' not found")

C2_Witness ==
    /\ Described
    /\ Cardinality(Absent) >= 2
    /\ FirstOf(Absent) > 1
    /\ \E j \in Absent : LastTokens[j] # LastTokens[FirstOf(Absent)]
    /\ last.desc.entity = LastTokens[FirstOf(Absent)]

(***************************************************************************)
(* C3: on the success path describe equals its reference definition. When  *)
(* every trimmed token is a key of the index there is no error and the     *)
(* result is the descriptions of the tokens, one per token, in request     *)
(* order, joined by a blank line; the request with the white space removed *)
(* gives the same result.                                                  *)
(***************************************************************************)
C3_SuccessIsReference ==
    Described =>
        LET idx == LastIndex
            toks == LastTokens
            n == Len(toks)
            result == last.desc.result
        IN  AbsentIn(idx, toks) = {} =>
              /\ ~last.isError
              /\ last.desc.err = ""
              /\ last.text = result
              /\ Len(result) = OffsetOf(idx, toks, n) + Len(idx[toks[n]])
              /\ \A k \in 1..n :
                   LET d == idx[toks[k]]
                       off == OffsetOf(idx, toks, k)
                   IN  /\ SubSeq(result, off + 1, off + Len(d)) = d
                       /\ k < n => SubSeq(result, off + Len(d) + 1, off + Len(d) + 2) = "\n\n"
              /\ \A other \in describeGraphQLEntities([err |-> "", Schema |-> last.res],
                                                      Join(toks, ",")) :
                   other.result = result /\ other.err = ""

C3_Witness ==
    /\ Described
    /\ Absent = {}
    /\ Len(LastTokens) >= 3
    /\ \E i, j \in 1..Len(LastTokens) : i # j /\ LastTokens[i] = LastTokens[j]
    /\ last.entities # Join(LastTokens, ",")
    /\ ~last.isError

(***************************************************************************)
(* C4: a describe miss carries exactly min(3, size of the index) example   *)
(* names, all distinct keys of the index; with an empty index there are    *)
(* none, and an empty token is an ordinary key that fails the lookup.      *)
(***************************************************************************)
C4_ExampleNames ==
    Described =>
        LET idx == LastIndex
            toks == LastTokens
            ex == last.desc.example
            size == Cardinality(DOMAIN idx)
        IN  AbsentIn(idx, toks) # {} =>
              /\ Len(ex) = IF size < 3 THEN size ELSE 3
              /\ \A i \in 1..Len(ex) : ex[i] \in DOMAIN idx
              /\ \A i, j \in 1..Len(ex) : i # j => ex[i] # ex[j]
              /\ (size = 0 => ex = <<>>)
              /\ last.desc.err = "entity '" \o last.desc.entity
                                 \o "' not found in schema. Example entities in the schema: "
                                 \o Join(ex, ", ")
              /\ ((\E k \in 1..Len(toks) : toks[k] = "") => last.desc.failed)

C4_Witness ==
    /\ Described
    /\ Absent # {}
    /\ Cardinality(DOMAIN LastIndex) > 3
    /\ Len(last.desc.example) = 3
    /\ last.desc.entity = ""

(***************************************************************************)
(* C5: the example names of a miss are deterministic. Two describe calls   *)
(* with the same schema and the same request that miss report the same     *)
(* example names in the same order.                                        *)
(***************************************************************************)
C5_DeterministicExamples ==
    [][(/\ last.tool = "describe" /\ last.fetched /\ last.desc.failed
        /\ last'.tool = "describe" /\ last'.fetched /\ last'.desc.failed
        /\ last'.res = last.res
        /\ last'.entities = last.entities)
       => last'.desc.example = last.desc.example]_vars

(***************************************************************************)
(* C6: list_queries (list_mutations) returns the header line "Queries:"    *)
(* ("Mutations:") followed by exactly one newline-terminated signature     *)
(* line per top-level query (mutation) field, in declaration order; for a  *)
(* schema without such fields, the header line alone.                      *)
(***************************************************************************)
IsListing(text, header, fields) ==
    LET n == Len(fields) IN
    /\ NumPieces(text, "\n") = n + 2
    /\ Piece(text, "\n", 1) = header
    /\ \A i \in 1..n : Piece(text, "\n", i + 1) = PrettyPrintField(fields[i])
    /\ Piece(text, "\n", n + 2) = ""

C7_HeadersPersist ==
    last.requested =>
        \A k \in DOMAIN pinned : k \in DOMAIN last.sent /\ last.sent[k] = pinned[k]

(***************************************************************************)
(* C8: no schema is cached across tool invocations. Every list_queries,    *)
(* list_mutations and describe call makes one introspection fetch of its   *)
(* own and answers from the schema the endpoint serves at that moment.     *)
(***************************************************************************)
FreshTexts(tool, entities, schema) ==
    LET res == [err |-> "", Schema |-> schema] IN
    CASE tool = "list_queries" -> {listGraphQLQueries(res).out}
      [] tool = "list_mutations" -> {listGraphQLMutations(res).out}
      [] OTHER ->
           {IF d.err # "" THEN "Failed to describe entities: " \o d.err \o AuthHint
            ELSE d.result : d \in describeGraphQLEntities(res, entities)}

C8_NoSchemaCache ==
    [][(fetches' # fetches \/ last' # last) =>
          /\ fetches' = fetches + 1
          /\ last'.tool \in {"list_queries", "list_mutations", "describe"}
          /\ last'.fetched =>
                /\ last'.res = upstream'
                /\ last'.text \in FreshTexts(last'.tool, last'.entities, upstream')]_vars

C8_Witness ==
    /\ last.afterRedeploy
    /\ last.fetched
    /\ fetches >= 2
    /\ last.tool = "describe"
    /\ ~last.isError
    /\ last.res = upstream
    /\ last.text \in FreshTexts("describe", last.entities, upstream)

(***************************************************************************)
(* C10: a failed set_headers leaves the stored headers unchanged. Whenever *)
(* setHeaders returns an error, the header store after the call is the     *)
(* header store before it.                                                 *)
(***************************************************************************)
C10_FailedSetHeadersKeepsStore ==
    [][(last'.tool = "set_headers" /\ last'.isError) => currentHeaders' = currentHeaders]_vars

C10_Witness ==
    /\ last.tool = "set_headers"
    /\ last.isError
    /\ HasPrefix(last.text, "Failed to set headers: failed to parse headers JSON: json: cannot")
    /\ env.kind = "object"
    /\ \E k \in DOMAIN currentHeaders : currentHeaders[k] = "u"

(***************************************************************************)
(* C9: list_queries, list_mutations and describe share no mutable state.   *)
(* Under every interleaving of concurrent invocations there is no state in *)
(* which two of them access the same data, one of them writing.            *)
(***************************************************************************)
C9_NoSharedMutableState == ~DataRace

====
